---- MODULE Spec2Model ----
(***************************************************************************)
(* The editing session of App.tsx: the scene history with its cursor, the  *)
(* placement proposal, the busy flags and the asynchronous commits          *)
(* (apply-edits, inpainting, confirm-placement) and background removals.    *)
(* A handler that awaits keeps the values of the render it was created in   *)
(* (sceneHistory, historyIndex, products): the pending call records them    *)
(* and its completion writes from them.                                     *)
(***************************************************************************)
EXTENDS Integers, Sequences, FiniteSets, Bags, TLC

VARIABLES
    product,                \* slot -> "none" | "raw" | "cut"   (product1/product1File, product2/product2File)
    selectedProductSource,  \* "none" | "product1" | "product2"
    isLoading,
    error,                  \* TRUE iff the error message is not null
    isRemovingBackground,   \* "none" | slot
    sceneHistory,           \* sequence of HistoryEntry
    historyIndex,           \* -1 .. Len(sceneHistory)-1
    imageEdits,
    isMaskingMode,
    productForBgRemoval,    \* "none" | slot : the brush modal is open for this slot
    isProcessingManualBg,
    isTouchDragging,
    placedProduct,          \* NoPlacement or the active proposal
    revoked,                \* object URLs of scene entries passed to URL.revokeObjectURL
    maskData,               \* pixels of the scene's mask canvas (the stroke layer)
    modalData,              \* pixels of the brush modal's canvas
    touches,                \* the touches held on the proposal's preview, oldest first
    dragStartRef,           \* NoDrag or where the drag of the preview started
    pinchStartRef,          \* NoPinch or the distance and scale the pinch started with
    mouseListening,         \* the window has the mousemove/mouseup listeners of a drag
    pending,                \* bag of the asynchronous calls in flight, each with what its closure holds
    nextId                  \* next object URL / file identity of a scene entry

vars == <<product, selectedProductSource, isLoading, error, isRemovingBackground,
          sceneHistory, historyIndex, imageEdits, isMaskingMode, productForBgRemoval,
          isProcessingManualBg, isTouchDragging, placedProduct, revoked, maskData, modalData,
          touches, dragStartRef, pinchStartRef, mouseListening, pending, nextId>>

\* ---------------------------------------------------------------- bounds

\* Scene entries (files with their object URLs) created in one run.
MaxId == 3
\* Asynchronous calls in flight at once.
MaxTasks == 2
\* Pixels of a mask canvas.
MaskPixels == 2

\* ---------------------------------------------------------------- values

Slots == {"product1", "product2"}


HistoryEntry(i, dbg) == [file |-> i, url |-> i, debug |-> dbg]

NoPlacement == [source |-> "none", xPercent |-> 0, yPercent |-> 0, scale |-> 0]

PlacedProduct(src, x, y, sc) == [source |-> src, xPercent |-> x, yPercent |-> y, scale |-> sc]

\* Scale is kept in hundredths: 100 is the 1.0 a new proposal gets.
InitialScale == 100

DefaultEdits == [brightness |-> 100, contrast |-> 100, saturation |-> 100,
                 sharpen |-> 0, vignette |-> 0]

\* Image-relative positions (percent) a click, drop or drag yields;
\* OutsidePoint stands for a point outside the letterboxed image.
InsidePoints == {<<50, 50>>}
OutsidePoint == <<-1, -1>>
\* Positions a drag of the preview moves the proposal to.
DragTargets == {<<20, 80>>}

\* RGBA pixels: a pixel under a brush stroke (rgba(239, 68, 68, 0.7)) and
\* the two pixels of an encoded mask.
StrokePixel == <<239, 68, 68, 179>>
WhitePixel == <<255, 255, 255, 255>>
BlackPixel == <<0, 0, 0, 255>>

\* A canvas of untouched, transparent pixels.
ClearCanvas == [i \in 1..MaskPixels |-> <<0, 0, 0, 0>>]

\* null, where a File is expected.
NoFile == <<>>

\* The black and white mask of a stroke layer: white where alpha > 0.
\* Variant of encodeMask that takes only fully opaque pixels as painted.
encodeMaskOpaqueOnly(data) ==
    [i \in DOMAIN data |-> IF data[i][4] >= 255 THEN WhitePixel ELSE BlackPixel]

encodeMask(data) ==
    [i \in DOMAIN data |-> IF data[i][4] > 0 THEN WhitePixel ELSE BlackPixel]

\* ImageUploader.getMaskAsFile: null when no pixel has alpha > 0.
getMaskAsFile(data) ==
    IF \E i \in DOMAIN data : data[i][4] > 0 THEN encodeMask(data) ELSE NoFile

\* BackgroundRemovalModal.handleConfirm: the mask of the modal's canvas.
modalMaskFile(data) ==
    [i \in DOMAIN data |->
        IF data[i][4] > 0 THEN <<255, 255, 255, 255>> ELSE <<0, 0, 0, 255>>]


\* A call in flight with what its continuation reads after the await: the
\* history and cursor of its closure (the commits and the instant start), the
\* product slot (background removal), the placement sent to the compositor and
\* the mask file sent to the inpainting or background removal service.
Task(kind, st, slot) ==
    [kind |-> kind,
     hist |-> IF kind \in {"edits", "inpaint", "place", "instant"} THEN st.sceneHistory ELSE <<>>,
     idx |-> IF kind \in {"edits", "inpaint", "place"} THEN st.historyIndex ELSE -1,
     slot |-> slot,
     req |-> IF kind = "place" THEN st.placedProduct ELSE NoPlacement,
     mask |-> IF kind = "inpaint" THEN getMaskAsFile(st.maskData)
              ELSE IF kind = "manualbg" THEN modalMaskFile(st.modalData)
              ELSE NoFile]

Urls(h) == {h[i].url : i \in 1..Len(h)}


\* Layouts of the scene uploader: sizes <<width, height>> of the container
\* and of the preview canvas, and pointers <<x, y>> relative to the
\* container's top left corner, all in pixels.
ContainerSizes == {<<160, 90>>, <<100, 100>>}
ContentSizes == {<<160, 90>>, <<100, 100>>, <<200, 50>>, <<50, 100>>}
PointerGrid == {<<5 * i, 5 * j>> : i \in -1..33, j \in -1..21}
Pointers ==
    {p \in PointerGrid : /\ p[1] \in {-5, 0, 35, 55, 60, 80, 125, 160}
                         /\ p[2] \in {-5, 0, 25, 45, 65, 90, 100}}
inContainer(rect, p) ==
    /\ 0 <= p[1] /\ p[1] <= rect[1]
    /\ 0 <= p[2] /\ p[2] <= rect[2]

\* The rectangle the browser draws the canvas content in (object-contain):
\* the content scaled by min(cw/iw, ch/ih) and centered.  Exact, with both
\* sides of each comparison multiplied by twice the content's width or height.
inContentRect(rect, content, p) ==
    LET cw == rect[1]  ch == rect[2]  iw == content[1]  ih == content[2]
    IN  IF cw * ih <= ch * iw
        THEN /\ 0 <= p[1] /\ p[1] <= cw
             /\ ch * iw - ih * cw <= 2 * iw * p[2]
             /\ 2 * iw * p[2] <= ch * iw + ih * cw
        ELSE /\ 0 <= p[2] /\ p[2] <= ch
             /\ cw * ih - iw * ch <= 2 * ih * p[1]
             /\ 2 * ih * p[1] <= cw * ih + iw * ch


\* Gestures on the preview of the proposal.  The scale is kept in hundredths;
\* NaN stands for the number JavaScript computes from 0 / 0.
MaxTouches == 2
MinScale == 10
MaxScale == 500
NaN == -1
NoDrag ==
    [active |-> FALSE, startX |-> 0, startY |-> 0, startXPercent |-> 0, startYPercent |-> 0]
NoPinch == [active |-> FALSE, initialDist |-> 0, initialScale |-> 0]
\* Size <<width, height>> of the scene container during the gestures, the
\* half side of the preview (w-32 h-32) and the pointer positions used: they
\* lie on the container's diagonal, 30 percent of its size apart.
GestureContainer == <<200, 100>>
PreviewHalfSide == 64
GesturePoints == {<<40, 20>>, <<100, 50>>, <<160, 80>>}


\* Opaque test images: a landscape and a portrait one with edges that
\* sharpening overshoots, and one with colour.
TestImages ==
    LET Gray(v) == <<v, v, v, 255>>
        EdgeLevels == <<100, 200, 100, 200, 0, 255, 50, 150>>
    IN  {[w |-> 4, h |-> 2, px |-> [k \in 1..8 |-> Gray(EdgeLevels[k])]],
         [w |-> 2, h |-> 4, px |-> [k \in 1..8 |-> Gray(EdgeLevels[k])]],
         [w |-> 2, h |-> 2,
          px |-> <<<<200, 40, 40, 255>>, <<40, 200, 40, 255>>,
                   <<40, 40, 200, 255>>, <<120, 120, 120, 255>>>>]}

\* ---------------------------------------------------------- derived state

\* The React state of the current render, with two marks a handler leaves:
\* it stored a new products object, it stored a new history array.
Cur ==
    [product |-> product, selectedProductSource |-> selectedProductSource,
     isLoading |-> isLoading, error |-> error,
     isRemovingBackground |-> isRemovingBackground,
     sceneHistory |-> sceneHistory, historyIndex |-> historyIndex,
     imageEdits |-> imageEdits, isMaskingMode |-> isMaskingMode,
     productForBgRemoval |-> productForBgRemoval,
     isProcessingManualBg |-> isProcessingManualBg,
     isTouchDragging |-> isTouchDragging, placedProduct |-> placedProduct,
     revoked |-> revoked, maskData |-> maskData, modalData |-> modalData,
     touches |-> touches, dragStartRef |-> dragStartRef,
     pinchStartRef |-> pinchStartRef, mouseListening |-> mouseListening,
     pending |-> pending,
     nextId |-> nextId, prodSet |-> FALSE]

HasScene(st) == st.historyIndex >= 0 /\ st.historyIndex < Len(st.sceneHistory)

currentHistoryEntry(st) == st.sceneHistory[st.historyIndex + 1]

HasEdits(st) == st.imageEdits # DefaultEdits

\* renderContent: the error screen, the upload screen or the editor.
Screen(st) ==
    IF st.error THEN "error"
    ELSE IF st.product["product1"] = "none" \/ ~HasScene(st) THEN "upload"
    ELSE "main"

\* The brush modal covers the page while it is open.
ModalOpen(st) == st.productForBgRemoval # "none"

OnMain(st) == Screen(st) = "main" /\ ~ModalOpen(st)

isDropZone(st) ==
    HasScene(st) /\ ~st.isLoading /\ ~st.isMaskingMode /\ st.placedProduct = NoPlacement

EditorDisabled(st) == st.isLoading \/ st.placedProduct # NoPlacement

CardDisabled(st) ==
    \/ st.isLoading
    \/ st.isRemovingBackground # "none"
    \/ st.isProcessingManualBg
    \/ st.placedProduct # NoPlacement

HistoryButtonsShown(st) == HasScene(st) /\ ~st.isLoading /\ st.placedProduct = NoPlacement

PlacementControlsShown(st) == ~st.isLoading /\ st.placedProduct # NoPlacement

\* ------------------------------------------------------------- effects

\* The scene file shown by the uploader changed between two renders: the
\* preview source is reloaded and isPreviewSourceReady goes through false.
imageFileChanged(o, n) ==
    \/ HasScene(o) # HasScene(n)
    \/ HasScene(o) /\ HasScene(n)
       /\ currentHistoryEntry(o).file # currentHistoryEntry(n).file

\* Variant of the mask canvas effect that leaves the strokes in place.
maskCanvasEffectSkipped(o, n) == n

\* Effect 3 of the uploader, run when isMaskingMode or isPreviewSourceReady
\* changed: entering masking mode resizes the mask canvas, which blanks it,
\* and every other run clears it.
maskCanvasEffect(o, n) ==
    IF n.isMaskingMode # o.isMaskingMode \/ imageFileChanged(o, n)
    THEN [n EXCEPT !.maskData = ClearCanvas]
    ELSE n

\* The effects that run after a render: the historyIndex effect (reset the
\* sliders, leave masking mode, drop the proposal), the cleanup of the blob
\* URL effect (revoke every URL of the previous history when the history or
\* a product object changed), the mask canvas effect, and the modal's canvas,
\* which is blank when the modal is mounted or its image reloads.
Effects(o, n) ==
    LET n1 == IF n.historyIndex # o.historyIndex
              THEN [n EXCEPT !.imageEdits = DefaultEdits,
                             !.isMaskingMode = FALSE,
                             !.placedProduct = NoPlacement]
              ELSE n
        depsChanged == n1.sceneHistory # o.sceneHistory \/ n1.prodSet
        n2 == IF depsChanged
              THEN [n1 EXCEPT !.revoked = @ \cup Urls(o.sceneHistory)]
              ELSE n1
        n3 == maskCanvasEffect(o, n2)
        n4 == IF n3.productForBgRemoval = "none" \/ n3.prodSet
              THEN [n3 EXCEPT !.modalData = ClearCanvas]
              ELSE n3
        n5 == IF n4.placedProduct = NoPlacement
              THEN [n4 EXCEPT !.touches = <<>>]
              ELSE n4
    IN  n5

Render(n) ==
    \E f \in {Effects(Cur, n)} :
        /\ product' = f.product
        /\ selectedProductSource' = f.selectedProductSource
        /\ isLoading' = f.isLoading
        /\ error' = f.error
        /\ isRemovingBackground' = f.isRemovingBackground
        /\ sceneHistory' = f.sceneHistory
        /\ historyIndex' = f.historyIndex
        /\ imageEdits' = f.imageEdits
        /\ isMaskingMode' = f.isMaskingMode
        /\ productForBgRemoval' = f.productForBgRemoval
        /\ isProcessingManualBg' = f.isProcessingManualBg
        /\ isTouchDragging' = f.isTouchDragging
        /\ placedProduct' = f.placedProduct
        /\ revoked' = f.revoked
        /\ maskData' = f.maskData
        /\ modalData' = f.modalData
        /\ touches' = f.touches
        /\ dragStartRef' = f.dragStartRef
        /\ pinchStartRef' = f.pinchStartRef
        /\ mouseListening' = f.mouseListening
        /\ pending' = f.pending
        /\ nextId' = f.nextId

Init ==
    /\ product = [s \in Slots |-> "none"]
    /\ selectedProductSource = "none"
    /\ isLoading = FALSE
    /\ error = FALSE
    /\ isRemovingBackground = "none"
    /\ sceneHistory = <<>>
    /\ historyIndex = -1
    /\ imageEdits = DefaultEdits
    /\ isMaskingMode = FALSE
    /\ productForBgRemoval = "none"
    /\ isProcessingManualBg = FALSE
    /\ isTouchDragging = FALSE
    /\ placedProduct = NoPlacement
    /\ revoked = {}
    /\ maskData = ClearCanvas
    /\ modalData = ClearCanvas
    /\ touches = <<>>
    /\ dragStartRef = NoDrag
    /\ pinchStartRef = NoPinch
    /\ mouseListening = FALSE
    /\ pending = EmptyBag
    /\ nextId = 1

\* ------------------------------------------------------------ handlers
\* Each handler is the state its setState calls leave, as a function of the
\* state of the render it runs in; Render then applies the effects.

handleProductImageUpload(st, slot) ==
    [st EXCEPT !.error = FALSE,
               !.product[slot] = "raw",
               !.selectedProductSource = slot,
               !.prodSet = TRUE]

\* Variant of setInitialScene that pushes the image onto the history it finds.
setInitialSceneAppending(st, h) ==
    [st EXCEPT !.sceneHistory = Append(h, HistoryEntry(st.nextId, FALSE)),
               !.historyIndex = Len(h),
               !.placedProduct = NoPlacement,
               !.nextId = @ + 1]

\* h is the sceneHistory the callback's closure holds.
setInitialScene(st, h) ==
    [st EXCEPT !.revoked = @ \cup Urls(h),
               !.sceneHistory = <<HistoryEntry(st.nextId, FALSE)>>,
               !.historyIndex = 0,
               !.placedProduct = NoPlacement,
               !.nextId = @ + 1]

handleProductDrop(st, pt) ==
    IF st.selectedProductSource = "none"
       \/ st.product[st.selectedProductSource] = "none"
    THEN st
    ELSE [st EXCEPT !.placedProduct =
                        PlacedProduct(st.selectedProductSource, pt[1], pt[2], InitialScale),
                    !.error = FALSE,
                    !.isLoading = FALSE]

\* Variant of handlePlacement without the test of the image boundaries.
handlePlacementUnchecked(st, pt) == handleProductDrop(st, pt)

\* ImageUploader.handlePlacement: a point outside the image is dropped.
handlePlacement(st, pt) ==
    IF pt = OutsidePoint THEN st ELSE handleProductDrop(st, pt)

handleUpdatePlacedProduct(st, upd) ==
    IF st.placedProduct = NoPlacement THEN st
    ELSE [st EXCEPT !.placedProduct =
              [source |-> @.source,
               xPercent |-> IF upd.hasPos THEN upd.x ELSE @.xPercent,
               yPercent |-> IF upd.hasPos THEN upd.y ELSE @.yPercent,
               scale |-> IF upd.hasScale THEN upd.scale ELSE @.scale]]

handleCancelPlacement(st) == [st EXCEPT !.placedProduct = NoPlacement]

handleResetEdits(st) == [st EXCEPT !.imageEdits = DefaultEdits]

handleToggleMaskingMode(st, active) ==
    [st EXCEPT !.isMaskingMode = active,
               !.placedProduct = IF active THEN NoPlacement ELSE @]

\* Variant of handleReset that forgets setSceneHistory([]).
handleResetKeepHistory(st) ==
    [st EXCEPT !.product = [s \in Slots |-> "none"],
               !.prodSet = \E s \in Slots : st.product[s] # "none",
               !.selectedProductSource = "none",
               !.historyIndex = -1,
               !.error = FALSE,
               !.isLoading = FALSE,
               !.placedProduct = NoPlacement,
               !.isMaskingMode = FALSE]

handleReset(st) ==
    [st EXCEPT !.product = [s \in Slots |-> "none"],
               !.prodSet = \E s \in Slots : st.product[s] # "none",
               !.selectedProductSource = "none",
               !.revoked = @ \cup Urls(st.sceneHistory),
               !.sceneHistory = <<>>,
               !.historyIndex = -1,
               !.error = FALSE,
               !.isLoading = FALSE,
               !.placedProduct = NoPlacement,
               !.isMaskingMode = FALSE]

handleChangeProduct(st, slot) ==
    LET other == IF slot = "product1" THEN "product2" ELSE "product1"
    IN  [st EXCEPT !.product[slot] = "none",
                   !.prodSet = st.product[slot] # "none",
                   !.selectedProductSource =
                       IF @ = slot
                       THEN (IF st.product[other] # "none" THEN other ELSE "none")
                       ELSE @,
                   !.placedProduct = NoPlacement]

\* Variant of handleChangeScene that forgets setHistoryIndex(-1).
handleChangeSceneKeepCursor(st) ==
    [st EXCEPT !.revoked = @ \cup Urls(st.sceneHistory),
               !.sceneHistory = <<>>,
               !.placedProduct = NoPlacement,
               !.isMaskingMode = FALSE]

handleChangeScene(st) ==
    [st EXCEPT !.revoked = @ \cup Urls(st.sceneHistory),
               !.sceneHistory = <<>>,
               !.historyIndex = -1,
               !.placedProduct = NoPlacement,
               !.isMaskingMode = FALSE]

\* Variant of handleUndo that drops the entry it leaves.
handleUndoPopping(st) ==
    IF st.historyIndex > 0
    THEN [st EXCEPT !.sceneHistory = SubSeq(@, 1, st.historyIndex),
                    !.historyIndex = @ - 1, !.placedProduct = NoPlacement]
    ELSE st

\* Variant of handleUndo whose guard admits the first entry.
handleUndoFromFirst(st) ==
    IF st.historyIndex >= 0
    THEN [st EXCEPT !.historyIndex = @ - 1, !.placedProduct = NoPlacement]
    ELSE st

handleUndo(st) ==
    IF st.historyIndex > 0
    THEN [st EXCEPT !.historyIndex = @ - 1, !.placedProduct = NoPlacement]
    ELSE st

\* Variant of handleRedo whose guard admits the last entry.
handleRedoFromLast(st) ==
    IF st.historyIndex < Len(st.sceneHistory)
    THEN [st EXCEPT !.historyIndex = @ + 1, !.placedProduct = NoPlacement]
    ELSE st

handleRedo(st) ==
    IF st.historyIndex < Len(st.sceneHistory) - 1
    THEN [st EXCEPT !.historyIndex = @ + 1, !.placedProduct = NoPlacement]
    ELSE st

\* The commit of a resolved call: the history and cursor of the closure (h, i)
\* are cut after the cursor, the pruned URLs revoked, the new entry pushed.
CommitEntry(st, h, i, dbg) ==
    LET newHistory == Append(SubSeq(h, 1, i + 1), HistoryEntry(st.nextId, dbg))
        prunedHistory == SubSeq(h, i + 2, Len(h))
    IN  [st EXCEPT !.revoked = @ \cup Urls(prunedHistory),
                   !.sceneHistory = newHistory,
                   !.historyIndex = Len(newHistory) - 1,
                   !.nextId = @ + 1]

Started(st, t) == [st EXCEPT !.pending = @ (+) SetToBag({t})]

Resolved(st, t) == [st EXCEPT !.pending = @ (-) SetToBag({t})]

\* handleApplyEdits up to its await.
applyEditsStart(st) ==
    IF ~HasScene(st) THEN st
    ELSE Started([st EXCEPT !.isLoading = TRUE, !.error = FALSE], Task("edits", st, "none"))

applyEditsDone(st, t) ==
    [handleResetEdits(CommitEntry(Resolved(st, t), t.hist, t.idx, FALSE))
        EXCEPT !.isLoading = FALSE]

\* Variant of the catch of handleApplyEdits that still pushes an entry.
applyEditsFailCommits(st, t) ==
    [CommitEntry(Resolved(st, t), t.hist, t.idx, FALSE)
        EXCEPT !.error = TRUE, !.isLoading = FALSE]

applyEditsFail(st, t) ==
    [Resolved(st, t) EXCEPT !.error = TRUE, !.isLoading = FALSE]

\* handleApplyInpainting up to its await of the service; an empty mask
\* (getMaskAsFile returns null) only sets the error.
applyInpaintingStart(st) ==
    IF ~HasScene(st) THEN st
    ELSE IF getMaskAsFile(st.maskData) = NoFile THEN [st EXCEPT !.error = TRUE]
    ELSE Started([st EXCEPT !.isLoading = TRUE, !.error = FALSE, !.isMaskingMode = FALSE],
                 Task("inpaint", st, "none"))

applyInpaintingDone(st, t) ==
    [CommitEntry(Resolved(st, t), t.hist, t.idx, FALSE) EXCEPT !.isLoading = FALSE]

applyInpaintingFail(st, t) ==
    [Resolved(st, t) EXCEPT !.error = TRUE, !.isLoading = FALSE]

\* Variant of handleConfirmPlacement without its two tests.
confirmPlacementStartUnchecked(st) ==
    Started([st EXCEPT !.isLoading = TRUE, !.error = FALSE],
            Task("place", st, st.placedProduct.source))

\* handleConfirmPlacement up to its await.
confirmPlacementStart(st) ==
    IF st.placedProduct = NoPlacement \/ ~HasScene(st) THEN [st EXCEPT !.error = TRUE]
    ELSE IF st.product[st.placedProduct.source] = "none" THEN [st EXCEPT !.error = TRUE]
    ELSE Started([st EXCEPT !.isLoading = TRUE, !.error = FALSE],
                 Task("place", st, st.placedProduct.source))

confirmPlacementDone(st, t) ==
    [CommitEntry(Resolved(st, t), t.hist, t.idx, TRUE)
        EXCEPT !.isLoading = FALSE, !.placedProduct = NoPlacement]

\* Variant of removeBackgroundFail without the finally block.
removeBackgroundFailKeepsFlag(st, t) == [Resolved(st, t) EXCEPT !.error = TRUE]

\* Variant of the failure path without the finally block's setPlacedProduct(null).
confirmPlacementFailKeepsProposal(st, t) ==
    [Resolved(st, t) EXCEPT !.error = TRUE, !.isLoading = FALSE]

confirmPlacementFail(st, t) ==
    [Resolved(st, t) EXCEPT !.error = TRUE, !.isLoading = FALSE,
                            !.placedProduct = NoPlacement]

\* handleRemoveBackground up to its await.
removeBackgroundStart(st, slot) ==
    IF st.product[slot] = "none" THEN [st EXCEPT !.error = TRUE]
    ELSE Started([st EXCEPT !.error = FALSE, !.isRemovingBackground = slot],
                 Task("rmbg", st, slot))

removeBackgroundDone(st, t) ==
    [Resolved(st, t) EXCEPT !.product[t.slot] = "cut",
                            !.prodSet = TRUE,
                            !.isRemovingBackground = "none"]

removeBackgroundFail(st, t) ==
    [Resolved(st, t) EXCEPT !.error = TRUE, !.isRemovingBackground = "none"]

\* handleConfirmManualRemoveBg up to its await.
manualRemoveBgStart(st) ==
    IF st.product[st.productForBgRemoval] = "none"
    THEN [st EXCEPT !.error = TRUE, !.productForBgRemoval = "none"]
    ELSE Started([st EXCEPT !.error = FALSE, !.isProcessingManualBg = TRUE],
                 Task("manualbg", st, st.productForBgRemoval))

manualRemoveBgDone(st, t) ==
    [Resolved(st, t) EXCEPT !.product[t.slot] = "cut",
                            !.prodSet = TRUE,
                            !.isProcessingManualBg = FALSE,
                            !.productForBgRemoval = "none"]

manualRemoveBgFail(st, t) ==
    [Resolved(st, t) EXCEPT !.error = TRUE,
                            !.isProcessingManualBg = FALSE,
                            !.productForBgRemoval = "none"]

handleTouchStart(st, slot) ==
    IF st.product[slot] = "none" \/ st.placedProduct # NoPlacement THEN st
    ELSE [st EXCEPT !.selectedProductSource = slot, !.isTouchDragging = TRUE]

\* The window's touchend listener: a drop needs the scene drop zone and its
\* canvas under the finger, which only the editor screen has.
handleTouchEnd(st, pt) ==
    IF ~st.isTouchDragging THEN st
    ELSE [(IF OnMain(st) /\ pt # OutsidePoint THEN handleProductDrop(st, pt) ELSE st)
             EXCEPT !.isTouchDragging = FALSE]

setImageEdits(st, field, value) == [st EXCEPT !.imageEdits[field] = value]



\* Variant of renderedSize that fills the container instead of fitting in it.
renderedSizeCover(rect, content) ==
    LET cw == rect[1]  ch == rect[2]  iw == content[1]  ih == content[2]
        k == 2 * iw * ih
    IN  IF iw * ch < cw * ih
        THEN [k |-> k, w |-> cw * k, h |-> 2 * cw * ih * ih]
        ELSE [k |-> k, w |-> 2 * ch * iw * iw, h |-> ch * k]

\* The rendered size computed by handlePlacement and by handleTouchEnd, in
\* units of 1/k pixel with k = 2 * imageWidth * imageHeight, which makes every
\* quotient of the computation exact.
renderedSize(rect, content) ==
    LET cw == rect[1]  ch == rect[2]  iw == content[1]  ih == content[2]
        k == 2 * iw * ih
    IN  IF iw * ch > cw * ih
        THEN [k |-> k, w |-> cw * k, h |-> 2 * cw * ih * ih]
        ELSE [k |-> k, w |-> 2 * ch * iw * iw, h |-> ch * k]

\* The percentages of a pointer, or OutsidePoint when it is outside the
\* rendered image; a percentage is kept to the whole percent below it.
projectPointer(rect, content, p) ==
    LET r == renderedSize(rect, content)
        offsetX == (rect[1] * r.k - r.w) \div 2
        offsetY == (rect[2] * r.k - r.h) \div 2
        imageX == p[1] * r.k - offsetX
        imageY == p[2] * r.k - offsetY
    IN  IF imageX < 0 \/ imageX > r.w \/ imageY < 0 \/ imageY > r.h
        THEN OutsidePoint
        ELSE <<(imageX * 100) \div r.w, (imageY * 100) \div r.h>>

\* ImageUploader.handleClick / handleDrop: the event is the container's.
projectPlacement(rect, content, p) == projectPointer(rect, content, p)

\* App.handleTouchEnd: the drop zone is looked up under the touch.
projectTouchDrop(rect, content, p) ==
    IF inContainer(rect, p) THEN projectPointer(rect, content, p) ELSE OutsidePoint


\* The preview's box is centered at the proposal's percentages of the
\* container and scaled; the container clips it.  A transform with a NaN
\* scale is not applied, the element keeps the box of an earlier render,
\* which the box of the largest scale contains.
onPreview(st, p) ==
    /\ st.placedProduct # NoPlacement
    /\ inContainer(GestureContainer, p)
    /\ LET dx == 100 * p[1] - st.placedProduct.xPercent * GestureContainer[1]
           dy == 100 * p[2] - st.placedProduct.yPercent * GestureContainer[2]
           half == PreviewHalfSide * (IF st.placedProduct.scale = NaN
                                      THEN MaxScale ELSE st.placedProduct.scale)
       IN  /\ -half <= dx /\ dx <= half
           /\ -half <= dy /\ dy <= half

RECURSIVE SqrtBetween(_, _, _)
SqrtBetween(n, lo, hi) ==
    IF lo >= hi THEN lo
    ELSE LET mid == (lo + hi + 1) \div 2
         IN  IF mid * mid <= n THEN SqrtBetween(n, mid, hi)
             ELSE SqrtBetween(n, lo, mid - 1)

\* Math.sqrt, to the whole number below (of numbers below 2^31).
FloorSqrt(n) == SqrtBetween(n, 0, IF n < 46340 THEN n ELSE 46340)

getTouchDistance(ts) ==
    FloorSqrt((ts[2][1] - ts[1][1]) * (ts[2][1] - ts[1][1])
              + (ts[2][2] - ts[1][2]) * (ts[2][2] - ts[1][2]))

\* Position update of a drag: the percentages at its start plus the pointer's
\* displacement since then, as a percentage of the container.
dragUpdate(st, p) ==
    [hasPos |-> TRUE,
     x |-> st.dragStartRef.startXPercent
             + ((p[1] - st.dragStartRef.startX) * 100) \div GestureContainer[1],
     y |-> st.dragStartRef.startYPercent
             + ((p[2] - st.dragStartRef.startY) * 100) \div GestureContainer[2],
     hasScale |-> FALSE, scale |-> 0]

\* Math.max(0.1, Math.min(initialScale * (currentDist / initialDist), 5.0)):
\* x / 0 is Infinity for x > 0 and NaN for x = 0, and Math.min and Math.max
\* return NaN when an argument is NaN.
pinchScale(initialScale, initialDist, currentDist) ==
    IF initialScale = NaN THEN NaN
    ELSE IF initialDist = 0
    THEN IF currentDist = 0 THEN NaN ELSE MaxScale
    ELSE LET newScale == (initialScale * currentDist) \div initialDist
         IN  IF newScale > MaxScale THEN MaxScale
             ELSE IF newScale < MinScale THEN MinScale ELSE newScale

handlePreviewDragStart(st, p) ==
    IF st.placedProduct = NoPlacement THEN st
    ELSE [st EXCEPT !.dragStartRef =
                        [active |-> TRUE, startX |-> p[1], startY |-> p[2],
                         startXPercent |-> st.placedProduct.xPercent,
                         startYPercent |-> st.placedProduct.yPercent],
                    !.mouseListening = TRUE]

\* Variant of handlePreviewDragMove that adds the displacement to the position
\* of the previous update.
handlePreviewDragMoveAccumulating(st, p) ==
    IF ~st.dragStartRef.active THEN st
    ELSE handleUpdatePlacedProduct(st,
             [dragUpdate(st, p) EXCEPT
                 !.x = @ - st.dragStartRef.startXPercent + st.placedProduct.xPercent,
                 !.y = @ - st.dragStartRef.startYPercent + st.placedProduct.yPercent])

handlePreviewDragMove(st, p) ==
    IF ~st.dragStartRef.active THEN st
    ELSE handleUpdatePlacedProduct(st, dragUpdate(st, p))

\* Variant of handlePreviewTouchStart that keeps the drag when a pinch starts.
handlePreviewTouchStartKeepsDrag(st, ts) ==
    IF st.placedProduct = NoPlacement THEN st
    ELSE IF Len(ts) = 1
    THEN [st EXCEPT !.dragStartRef =
                        [active |-> TRUE, startX |-> ts[1][1], startY |-> ts[1][2],
                         startXPercent |-> st.placedProduct.xPercent,
                         startYPercent |-> st.placedProduct.yPercent]]
    ELSE IF Len(ts) = 2
    THEN [st EXCEPT !.pinchStartRef =
                        [active |-> TRUE, initialDist |-> getTouchDistance(ts),
                         initialScale |-> st.placedProduct.scale]]
    ELSE st

\* ts is e.touches: the touches held once the event has happened.
handlePreviewTouchStart(st, ts) ==
    IF st.placedProduct = NoPlacement THEN st
    ELSE IF Len(ts) = 1
    THEN [st EXCEPT !.dragStartRef =
                        [active |-> TRUE, startX |-> ts[1][1], startY |-> ts[1][2],
                         startXPercent |-> st.placedProduct.xPercent,
                         startYPercent |-> st.placedProduct.yPercent]]
    ELSE IF Len(ts) = 2
    THEN [st EXCEPT !.pinchStartRef =
                        [active |-> TRUE, initialDist |-> getTouchDistance(ts),
                         initialScale |-> st.placedProduct.scale],
                    !.dragStartRef = NoDrag]
    ELSE st

handlePreviewTouchMove(st, ts) ==
    IF st.placedProduct = NoPlacement THEN st
    ELSE IF Len(ts) = 1 /\ st.dragStartRef.active
    THEN handleUpdatePlacedProduct(st, dragUpdate(st, ts[1]))
    ELSE IF Len(ts) = 2 /\ st.pinchStartRef.active
    THEN handleUpdatePlacedProduct(st,
             [hasPos |-> FALSE, x |-> 0, y |-> 0, hasScale |-> TRUE,
              scale |-> pinchScale(st.pinchStartRef.initialScale,
                                   st.pinchStartRef.initialDist, getTouchDistance(ts))])
    ELSE st

handlePreviewTouchEnd(st, ts) ==
    LET a == IF Len(ts) < 2 THEN [st EXCEPT !.pinchStartRef = NoPinch] ELSE st
    IN  IF Len(ts) < 1 THEN [a EXCEPT !.dragStartRef = NoDrag] ELSE a


\* ------------------------------------------------------ the image pipeline
\* An image or canvas is [w, h, px]: px gives the <<r, g, b, a>> of its
\* pixels, row by row.

Clamp(v, lo, hi) == IF v < lo THEN lo ELSE IF v > hi THEN hi ELSE v

\* A store of n / d into a Uint8ClampedArray: rounded to the nearest
\* integer, halves to the even one, then clamped.
ToUint8Clamped(n, d) ==
    LET q == n \div d
        r == n % d
        rounded == IF 2 * r < d THEN q
                   ELSE IF 2 * r > d THEN q + 1
                   ELSE IF q % 2 = 0 THEN q ELSE q + 1
    IN  Clamp(rounded, 0, 255)

\* Variant of applySharpen without the early return.
applySharpenUnguarded(img, amount) ==
    IF FALSE THEN img
    ELSE LET src(x, y) ==
                 img.px[Clamp(y, 0, img.h - 1) * img.w + Clamp(x, 0, img.w - 1) + 1]
             dst(k) ==
                 LET x == (k - 1) % img.w
                     y == (k - 1) \div img.w
                     conv(c) == 5 * src(x, y)[c] - src(x, y - 1)[c] - src(x - 1, y)[c]
                                - src(x + 1, y)[c] - src(x, y + 1)[c]
                     mix(c) == ToUint8Clamped(src(x, y)[c] * (100 - amount)
                                               + conv(c) * amount, 100)
                 IN  <<mix(1), mix(2), mix(3), src(x, y)[4]>>
         IN  [img EXCEPT !.px = [k \in DOMAIN img.px |-> dst(k)]]

\* Variant of applySharpen that reads 0 for neighbours outside the image.
applySharpenZeroPad(img, amount) ==
    IF amount <= 0 THEN img
    ELSE LET src(x, y) ==
                 IF x < 0 \/ x >= img.w \/ y < 0 \/ y >= img.h THEN <<0, 0, 0, 0>>
                 ELSE img.px[y * img.w + x + 1]
             dst(k) ==
                 LET x == (k - 1) % img.w
                     y == (k - 1) \div img.w
                     conv(c) == 5 * src(x, y)[c] - src(x, y - 1)[c] - src(x - 1, y)[c]
                                - src(x + 1, y)[c] - src(x, y + 1)[c]
                     mix(c) == ToUint8Clamped(src(x, y)[c] * (100 - amount)
                                               + conv(c) * amount, 100)
                 IN  <<mix(1), mix(2), mix(3), src(x, y)[4]>>
         IN  [img EXCEPT !.px = [k \in DOMAIN img.px |-> dst(k)]]

\* App.tsx applySharpen: the 3x3 kernel 0 -1 0 / -1 5 -1 / 0 -1 0 over the
\* pixels with clamped coordinates, mixed with the original by amount / 100.
applySharpen(img, amount) ==
    IF amount <= 0 THEN img
    ELSE LET src(x, y) ==
                 img.px[Clamp(y, 0, img.h - 1) * img.w + Clamp(x, 0, img.w - 1) + 1]
             dst(k) ==
                 LET x == (k - 1) % img.w
                     y == (k - 1) \div img.w
                     conv(c) == 5 * src(x, y)[c] - src(x, y - 1)[c] - src(x - 1, y)[c]
                                - src(x + 1, y)[c] - src(x, y + 1)[c]
                     mix(c) == ToUint8Clamped(src(x, y)[c] * (100 - amount)
                                               + conv(c) * amount, 100)
                 IN  <<mix(1), mix(2), mix(3), src(x, y)[4]>>
         IN  [img EXCEPT !.px = [k \in DOMAIN img.px |-> dst(k)]]

\* ImageUploader.tsx applySharpen, the copy the preview calls.
previewApplySharpen(img, amount) ==
    IF amount <= 0 THEN img
    ELSE LET src(x, y) ==
                 img.px[Clamp(y, 0, img.h - 1) * img.w + Clamp(x, 0, img.w - 1) + 1]
             dst(k) ==
                 LET x == (k - 1) % img.w
                     y == (k - 1) \div img.w
                     conv(c) == 5 * src(x, y)[c] - src(x, y - 1)[c] - src(x - 1, y)[c]
                                - src(x + 1, y)[c] - src(x, y + 1)[c]
                     mix(c) == ToUint8Clamped(src(x, y)[c] * (100 - amount)
                                               + conv(c) * amount, 100)
                 IN  <<mix(1), mix(2), mix(3), src(x, y)[4]>>
         IN  [img EXCEPT !.px = [k \in DOMAIN img.px |-> dst(k)]]

\* The canvas filter brightness(b%) contrast(c%) saturate(s%) on one opaque
\* pixel: each function in turn, its result clamped and kept as 8 bit values.
filterPixel(p, edits) ==
    LET filterBrightness(q, b) ==
            <<ToUint8Clamped(q[1] * b, 100), ToUint8Clamped(q[2] * b, 100),
              ToUint8Clamped(q[3] * b, 100), q[4]>>
        filterContrast(q, c) ==
            LET f(v) == ToUint8Clamped(2 * v * c + 255 * (100 - c), 200)
            IN  <<f(q[1]), f(q[2]), f(q[3]), q[4]>>
        filterSaturate(q, s) ==
            LET lum == 213 * q[1] + 715 * q[2] + 72 * q[3]
                f(v) == ToUint8Clamped(lum * (100 - s) + 1000 * v * s, 100000)
            IN  <<f(q[1]), f(q[2]), f(q[3]), q[4]>>
    IN  filterSaturate(filterContrast(filterBrightness(p, edits.brightness),
                                      edits.contrast),
                       edits.saturation)

\* drawImage with the filter set: the canvas over itself in the commit pass,
\* the source preview onto the cleared display canvas in the preview pass.
drawFiltered(img, edits) ==
    [img EXCEPT !.px = [k \in DOMAIN img.px |-> filterPixel(img.px[k], edits)]]


\* Variant of vignetteGradient with a middle stop as dark as half the last.
vignetteGradientEvenStops(w, h, amount) ==
    [centerX2 |-> w, centerY2 |-> h,
     innerRadius4 |-> h,
     outerDiameterSq |-> w * w + h * h,
     stops |-> <<[offset |-> 0, alpha |-> 0],
                 [offset |-> 50, alpha |-> (7 * amount) \div 2],
                 [offset |-> 100, alpha |-> 7 * amount]>>]

\* createRadialGradient(w/2, h/2, h/4, w/2, h/2, sqrt(w*w + h*h) / 2) with
\* its three colour stops rgba(0,0,0,alpha).  The center is kept doubled, the
\* inner radius times 4, the outer radius as the square of its double, the
\* offsets in percent and the alphas in thousandths.
vignetteGradient(w, h, amount) ==
    [centerX2 |-> w, centerY2 |-> h,
     innerRadius4 |-> h,
     outerDiameterSq |-> w * w + h * h,
     stops |-> <<[offset |-> 0, alpha |-> 0],
                 [offset |-> 50, alpha |-> 2 * amount],
                 [offset |-> 100, alpha |-> 7 * amount]>>]

\* The vignette of the commit pass: nothing for amount 0, else fillRect with
\* the gradient over the whole canvas.  The filter of the stage before is
\* still set on the context, so the gradient's black passes through it.
\* Distances are in thousandths of a pixel, from the centers of the pixels;
\* a is the alpha of the gradient, in millionths, at t thousandths of the
\* way from the inner to the outer circle.
applyVignette(img, edits) ==
    IF ~(edits.vignette > 0) THEN img
    ELSE LET g == vignetteGradient(img.w, img.h, edits.vignette)
             ink == filterPixel(<<0, 0, 0, 255>>, edits)
             r0 == 250 * g.innerRadius4
             r1 == FloorSqrt(250000 * g.outerDiameterSq)
             dst(k) ==
                 LET x == (k - 1) % img.w
                     y == (k - 1) \div img.w
                     dx2 == 2 * x + 1 - g.centerX2
                     dy2 == 2 * y + 1 - g.centerY2
                     dist == FloorSqrt(250000 * (dx2 * dx2 + dy2 * dy2))
                     t == Clamp(((dist - r0) * 1000) \div (r1 - r0), 0, 1000)
                     a == IF t <= 10 * g.stops[2].offset
                          THEN (g.stops[1].alpha * (500 - t) + g.stops[2].alpha * t) * 2
                          ELSE (g.stops[2].alpha * (1000 - t)
                                + g.stops[3].alpha * (t - 500)) * 2
                     over(c) == ToUint8Clamped(ink[c] * a + img.px[k][c] * (1000000 - a),
                                               1000000)
                 IN  <<over(1), over(2), over(3), img.px[k][4]>>
         IN  [img EXCEPT !.px = [k \in DOMAIN img.px |-> dst(k)]]

\* What each pass hands to its sharpening stage: the commit pass the image
\* as drawn, the preview pass the source preview drawn through the filter.
commitSharpenInput(img, edits) == img

previewSharpenInput(img, edits) == drawFiltered(img, edits)

\* App.tsx applyEditsToImageFile: the canvas the edited file is made from.
applyEditsToImageFile(img, edits) ==
    applyVignette(
        drawFiltered(applySharpen(commitSharpenInput(img, edits), edits.sharpen), edits),
        edits)

\* ImageUploader Effect 2: the display canvas, for an image that needs no
\* down-scaling (both sides up to PREVIEW_MAX_DIM).
previewCanvas(img, edits) ==
    previewApplySharpen(previewSharpenInput(img, edits), edits.sharpen)

\* ------------------------------------------------------------- actions
\* One action per user intent or completion, enabled where the render offers
\* its control.

CanStart == BagCardinality(pending) < MaxTasks

CanAllocate == nextId <= MaxId

UploadProduct1 ==
    /\ Screen(Cur) = "upload" /\ ~ModalOpen(Cur)
    /\ Render(handleProductImageUpload(Cur, "product1"))

UploadProduct2 ==
    /\ OnMain(Cur) /\ product["product2"] = "none"
    /\ Render(handleProductImageUpload(Cur, "product2"))

\* A scene file chosen on the upload screen, or dropped on the scene while
\* it is no drop zone for products.
UploadScene ==
    /\ ~ModalOpen(Cur)
    /\ Screen(Cur) = "upload" \/ (Screen(Cur) = "main" /\ ~isDropZone(Cur))
    /\ CanAllocate
    /\ Render(setInitialScene(Cur, sceneHistory))

\* handleInstantStart: the fetch, then setInitialScene and the product upload
\* of the render the link was clicked in.
InstantStart ==
    /\ Screen(Cur) = "upload" /\ ~ModalOpen(Cur)
    /\ CanStart
    /\ Render(Started([Cur EXCEPT !.error = FALSE], Task("instant", Cur, "product1")))

InstantStartDone ==
    \E t \in BagToSet(pending) :
        /\ t.kind = "instant"
        /\ CanAllocate
        /\ Render(handleProductImageUpload(setInitialScene(Resolved(Cur, t), t.hist),
                                          "product1"))

InstantStartFail ==
    \E t \in BagToSet(pending) :
        /\ t.kind = "instant"
        /\ Render([Resolved(Cur, t) EXCEPT !.error = TRUE])

SelectProduct ==
    \E slot \in Slots :
        /\ OnMain(Cur) /\ product[slot] # "none"
        /\ Render([Cur EXCEPT !.selectedProductSource = slot])

\* A click or a mouse drop on the scene while it is a drop zone.
ScenePlacement ==
    \E pt \in InsidePoints \cup {OutsidePoint} :
        /\ OnMain(Cur) /\ isDropZone(Cur)
        /\ Render(handlePlacement(Cur, pt))

TouchStart ==
    \E slot \in Slots :
        /\ OnMain(Cur) /\ product[slot] # "none"
        /\ Render(handleTouchStart(Cur, slot))

TouchEnd ==
    \E pt \in InsidePoints \cup {OutsidePoint} :
        /\ isTouchDragging
        /\ Render(handleTouchEnd(Cur, pt))

\* Dragging the preview of the proposal (mouse or one finger).
PreviewDrag ==
    \E pt \in DragTargets :
        /\ OnMain(Cur) /\ placedProduct # NoPlacement
        /\ Render(handleUpdatePlacedProduct(Cur,
               [hasPos |-> TRUE, x |-> pt[1], y |-> pt[2], hasScale |-> FALSE, scale |-> 0]))

\* The scale slider of PlacementControls.
ScaleSlider ==
    \E sc \in {250} :
        /\ OnMain(Cur) /\ PlacementControlsShown(Cur)
        /\ Render(handleUpdatePlacedProduct(Cur,
               [hasPos |-> FALSE, x |-> 0, y |-> 0, hasScale |-> TRUE, scale |-> sc]))

CancelPlacement ==
    /\ OnMain(Cur) /\ PlacementControlsShown(Cur)
    /\ Render(handleCancelPlacement(Cur))

ConfirmPlacement ==
    /\ OnMain(Cur) /\ PlacementControlsShown(Cur)
    /\ CanStart
    /\ Render(confirmPlacementStart(Cur))

ConfirmPlacementDone ==
    \E t \in BagToSet(pending) :
        /\ t.kind = "place"
        /\ CanAllocate
        /\ Render(confirmPlacementDone(Cur, t))

ConfirmPlacementFail ==
    \E t \in BagToSet(pending) :
        /\ t.kind = "place"
        /\ Render(confirmPlacementFail(Cur, t))

RemoveBackground ==
    \E slot \in Slots :
        /\ OnMain(Cur) /\ product[slot] # "none" /\ ~CardDisabled(Cur)
        /\ CanStart
        /\ Render(removeBackgroundStart(Cur, slot))

RemoveBackgroundDone ==
    \E t \in BagToSet(pending) :
        /\ t.kind = "rmbg"
        /\ Render(removeBackgroundDone(Cur, t))

RemoveBackgroundFail ==
    \E t \in BagToSet(pending) :
        /\ t.kind = "rmbg"
        /\ Render(removeBackgroundFail(Cur, t))

OpenManualRemoveBg ==
    \E slot \in Slots :
        /\ OnMain(Cur) /\ product[slot] # "none" /\ ~CardDisabled(Cur)
        /\ Render([Cur EXCEPT !.productForBgRemoval = slot])

\* The modal's backdrop closes it, also while the call is processing.
CloseModal ==
    /\ ModalOpen(Cur)
    /\ Render([Cur EXCEPT !.productForBgRemoval = "none"])

ConfirmManualRemoveBg ==
    /\ ModalOpen(Cur) /\ ~isProcessingManualBg
    /\ product[productForBgRemoval] # "none"
    /\ CanStart
    /\ Render(manualRemoveBgStart(Cur))

ManualRemoveBgDone ==
    \E t \in BagToSet(pending) :
        /\ t.kind = "manualbg"
        /\ Render(manualRemoveBgDone(Cur, t))

ManualRemoveBgFail ==
    \E t \in BagToSet(pending) :
        /\ t.kind = "manualbg"
        /\ Render(manualRemoveBgFail(Cur, t))

ChangeProduct ==
    \E slot \in Slots :
        /\ OnMain(Cur) /\ product[slot] # "none"
        /\ Render(handleChangeProduct(Cur, slot))

\* "Try Again" of the error screen.
Reset ==
    /\ Screen(Cur) = "error" /\ ~ModalOpen(Cur)
    /\ Render(handleReset(Cur))

ChangeScene ==
    /\ OnMain(Cur) /\ HistoryButtonsShown(Cur)
    /\ Render(handleChangeScene(Cur))

\* The Undo and Redo buttons are disabled at the ends of the history, where
\* their handlers return without a change.
Undo ==
    /\ OnMain(Cur) /\ HistoryButtonsShown(Cur)
    /\ Render(handleUndo(Cur))

Redo ==
    /\ OnMain(Cur) /\ HistoryButtonsShown(Cur)
    /\ Render(handleRedo(Cur))

SliderChange ==
    \E in \in {<<"brightness", 100>>, <<"brightness", 120>>} :
        /\ OnMain(Cur) /\ ~EditorDisabled(Cur) /\ ~isMaskingMode
        /\ Render(setImageEdits(Cur, in[1], in[2]))

ResetEdits ==
    /\ OnMain(Cur) /\ ~EditorDisabled(Cur) /\ ~isMaskingMode /\ HasEdits(Cur)
    /\ Render(handleResetEdits(Cur))

\* Any of the five sliders of the editor.
EditSliders ==
    \E in \in {<<"brightness", 50>>, <<"brightness", 100>>,
               <<"contrast", 50>>, <<"contrast", 100>>,
               <<"saturation", 0>>, <<"saturation", 100>>,
               <<"sharpen", 0>>, <<"sharpen", 100>>,
               <<"vignette", 0>>, <<"vignette", 100>>} :
        /\ OnMain(Cur) /\ ~EditorDisabled(Cur) /\ ~isMaskingMode
        /\ Render(setImageEdits(Cur, in[1], in[2]))

ApplyEdits ==
    /\ OnMain(Cur) /\ ~EditorDisabled(Cur) /\ ~isMaskingMode /\ HasEdits(Cur)
    /\ CanStart
    /\ Render(applyEditsStart(Cur))

ApplyEditsDone ==
    \E t \in BagToSet(pending) :
        /\ t.kind = "edits"
        /\ CanAllocate
        /\ Render(applyEditsDone(Cur, t))

ApplyEditsFail ==
    \E t \in BagToSet(pending) :
        /\ t.kind = "edits"
        /\ Render(applyEditsFail(Cur, t))

ToggleMaskingMode ==
    /\ OnMain(Cur) /\ ~EditorDisabled(Cur)
    /\ Render(handleToggleMaskingMode(Cur, ~isMaskingMode))

\* A stroke of the mask brush over pixel i of the scene's mask canvas.
Paint ==
    \E i \in {1} :
        /\ OnMain(Cur) /\ isMaskingMode /\ placedProduct = NoPlacement
        /\ Render([Cur EXCEPT !.maskData[i] = StrokePixel])

\* The brush of the modal, anywhere on its canvas.
ModalPaint ==
    \E i \in 1..MaskPixels :
        /\ ModalOpen(Cur) /\ ~isProcessingManualBg
        /\ product[productForBgRemoval] # "none"
        /\ Render([Cur EXCEPT !.modalData[i] = StrokePixel])

ApplyInpainting ==
    /\ OnMain(Cur) /\ ~EditorDisabled(Cur) /\ isMaskingMode
    /\ CanStart
    /\ Render(applyInpaintingStart(Cur))

ApplyInpaintingDone ==
    \E t \in BagToSet(pending) :
        /\ t.kind = "inpaint"
        /\ CanAllocate
        /\ Render(applyInpaintingDone(Cur, t))

ApplyInpaintingFail ==
    \E t \in BagToSet(pending) :
        /\ t.kind = "inpaint"
        /\ Render(applyInpaintingFail(Cur, t))

Next ==
    \/ UploadProduct1 \/ UploadProduct2 \/ UploadScene
    \/ InstantStart \/ InstantStartDone \/ InstantStartFail
    \/ SelectProduct \/ ScenePlacement \/ TouchStart \/ TouchEnd
    \/ PreviewDrag \/ ScaleSlider \/ CancelPlacement
    \/ ConfirmPlacement \/ ConfirmPlacementDone \/ ConfirmPlacementFail
    \/ RemoveBackground \/ RemoveBackgroundDone \/ RemoveBackgroundFail
    \/ OpenManualRemoveBg \/ CloseModal \/ ConfirmManualRemoveBg
    \/ ManualRemoveBgDone \/ ManualRemoveBgFail
    \/ ChangeProduct \/ Reset \/ ChangeScene \/ Undo \/ Redo
    \/ SliderChange \/ ResetEdits \/ ApplyEdits \/ ApplyEditsDone \/ ApplyEditsFail
    \/ ToggleMaskingMode \/ Paint \/ ModalPaint
    \/ ApplyInpainting \/ ApplyInpaintingDone \/ ApplyInpaintingFail

Spec == Init /\ [][Next]_vars


\* A click or mouse drop at a pointer over the scene container.
ClickAt ==
    \E rect \in ContainerSizes, content \in ContentSizes, p \in Pointers :
        /\ inContainer(rect, p)
        /\ OnMain(Cur) /\ isDropZone(Cur)
        /\ Render(handlePlacement(Cur, projectPlacement(rect, content, p)))

\* The finger of a touch drag is lifted at a pointer, over the container or not.
TouchDropAt ==
    \E rect \in ContainerSizes, content \in ContentSizes, p \in Pointers :
        /\ isTouchDragging
        /\ Render(handleTouchEnd(Cur, projectTouchDrop(rect, content, p)))


\* The mouse is pressed on the preview, moved anywhere in the window, released.
PreviewMouseDownAt(p) ==
    /\ OnMain(Cur) /\ onPreview(Cur, p) /\ ~mouseListening
    /\ Render(handlePreviewDragStart(Cur, p))

PreviewMouseMoveAt(p) ==
    /\ mouseListening
    /\ Render(handlePreviewDragMove(Cur, p))

PreviewMouseUp ==
    /\ mouseListening
    /\ Render([Cur EXCEPT !.dragStartRef = NoDrag, !.mouseListening = FALSE])

\* A finger is put on the preview, a held finger moves or reports again where
\* it is, a held finger is lifted.
PreviewTouchStartAt(p) ==
    /\ OnMain(Cur) /\ onPreview(Cur, p) /\ Len(touches) < MaxTouches
    /\ LET ts == Append(touches, p)
       IN  Render(handlePreviewTouchStart([Cur EXCEPT !.touches = ts], ts))

\* The same with one finger at a time.
PreviewSingleTouchStart ==
    \E p \in GesturePoints : touches = <<>> /\ PreviewTouchStartAt(p)

PreviewTouchMoveAt(i, p) ==
    /\ i \in 1..Len(touches)
    /\ LET ts == [touches EXCEPT ![i] = p]
       IN  Render(handlePreviewTouchMove([Cur EXCEPT !.touches = ts], ts))

PreviewTouchEndAt(i) ==
    /\ i \in 1..Len(touches)
    /\ LET ts == [j \in 1..(Len(touches) - 1) |->
                     IF j < i THEN touches[j] ELSE touches[j + 1]]
       IN  Render(handlePreviewTouchEnd([Cur EXCEPT !.touches = ts], ts))

\* ------------------------------------------------------- environments
\* The same actions under two users, each a part of Next.

\* The scene session: one product, placed by mouse or by touch, the sliders,
\* the mask brush, the three commits and the history buttons.
NextScene ==
    \/ UploadProduct1 \/ UploadScene
    \/ SelectProduct \/ ScenePlacement \/ TouchStart \/ TouchEnd
    \/ CancelPlacement
    \/ ConfirmPlacement \/ ConfirmPlacementDone \/ ConfirmPlacementFail
    \/ ChangeProduct \/ Reset \/ ChangeScene \/ Undo \/ Redo
    \/ SliderChange \/ ResetEdits \/ ApplyEdits \/ ApplyEditsDone \/ ApplyEditsFail
    \/ ToggleMaskingMode \/ Paint
    \/ ApplyInpainting \/ ApplyInpaintingDone \/ ApplyInpaintingFail

SpecScene == Init /\ [][NextScene]_vars

\* The external services: background removal (automatic and by brush),
\* compositing of a proposal placed, moved and scaled by mouse, inpainting.
NextServices ==
    \/ UploadProduct1 \/ UploadProduct2 \/ UploadScene
    \/ SelectProduct \/ ChangeProduct \/ ChangeScene
    \/ ScenePlacement \/ PreviewDrag \/ ScaleSlider \/ CancelPlacement
    \/ ConfirmPlacement \/ ConfirmPlacementDone \/ ConfirmPlacementFail
    \/ RemoveBackground \/ RemoveBackgroundDone \/ RemoveBackgroundFail
    \/ OpenManualRemoveBg \/ CloseModal \/ ConfirmManualRemoveBg
    \/ ManualRemoveBgDone \/ ManualRemoveBgFail
    \/ Reset \/ Undo \/ Redo
    \/ ToggleMaskingMode \/ Paint
    \/ ApplyInpainting \/ ApplyInpaintingDone \/ ApplyInpaintingFail

SpecServices == Init /\ [][NextServices]_vars

\* The two mask workflows: remove-object on the scene and the brush modal
\* of a product.
NextMask ==
    \/ UploadProduct1 \/ UploadScene \/ Reset
    \/ ToggleMaskingMode \/ Paint
    \/ ApplyInpainting \/ ApplyInpaintingDone \/ ApplyInpaintingFail
    \/ OpenManualRemoveBg \/ CloseModal \/ ModalPaint \/ ConfirmManualRemoveBg
    \/ ManualRemoveBgDone \/ ManualRemoveBgFail

SpecMask == Init /\ [][NextMask]_vars


\* Placing by pointer over letterboxed layouts.
NextProjection ==
    \/ UploadProduct1 \/ UploadScene
    \/ ClickAt \/ TouchStart \/ TouchDropAt
    \/ CancelPlacement

SpecProjection == Init /\ [][NextProjection]_vars


\* Moving a proposal by mouse and with one finger.
NextDrag ==
    \/ UploadProduct1 \/ UploadScene
    \/ ScenePlacement \/ CancelPlacement
    \/ (\E p \in GesturePoints : PreviewMouseDownAt(p))
    \/ (\E p \in GesturePoints : PreviewMouseMoveAt(p))
    \/ PreviewMouseUp
    \/ PreviewSingleTouchStart
    \/ (\E i \in 1..MaxTouches, p \in GesturePoints : PreviewTouchMoveAt(i, p))
    \/ (\E i \in 1..MaxTouches : PreviewTouchEndAt(i))

SpecDrag == Init /\ [][NextDrag]_vars

\* Moving and scaling a proposal by touch, with up to MaxTouches fingers.
NextTouch ==
    \/ UploadProduct1 \/ UploadScene
    \/ ScenePlacement \/ CancelPlacement
    \/ (\E p \in GesturePoints : PreviewTouchStartAt(p))
    \/ (\E i \in 1..MaxTouches, p \in GesturePoints : PreviewTouchMoveAt(i, p))
    \/ (\E i \in 1..MaxTouches : PreviewTouchEndAt(i))

SpecTouch == Init /\ [][NextTouch]_vars


\* Adjusting the scene with the five sliders and committing the edits.
NextEdits ==
    \/ UploadProduct1 \/ UploadScene
    \/ EditSliders \/ ResetEdits
    \/ ApplyEdits \/ ApplyEditsDone \/ ApplyEditsFail
    \/ Undo \/ Redo

SpecEdits == Init /\ [][NextEdits]_vars

\* The operations with a busy flag, with external calls that resolve: the
\* promise of an outstanding call is settled at some time, with a result or
\* with an error.
NextBusy ==
    \/ UploadProduct1 \/ UploadScene \/ Reset
    \/ ScenePlacement
    \/ ConfirmPlacement \/ ConfirmPlacementDone \/ ConfirmPlacementFail
    \/ SliderChange \/ ApplyEdits \/ ApplyEditsDone \/ ApplyEditsFail
    \/ ToggleMaskingMode \/ Paint
    \/ ApplyInpainting \/ ApplyInpaintingDone \/ ApplyInpaintingFail
    \/ RemoveBackground \/ RemoveBackgroundDone \/ RemoveBackgroundFail
    \/ OpenManualRemoveBg \/ ConfirmManualRemoveBg
    \/ ManualRemoveBgDone \/ ManualRemoveBgFail

SpecResolving ==
    /\ Init /\ [][NextBusy]_vars
    /\ WF_vars(ConfirmPlacementDone \/ ConfirmPlacementFail)
    /\ WF_vars(ApplyEditsDone \/ ApplyEditsFail)
    /\ WF_vars(ApplyInpaintingDone \/ ApplyInpaintingFail)
    /\ WF_vars(RemoveBackgroundDone \/ RemoveBackgroundFail)
    /\ WF_vars(ManualRemoveBgDone \/ ManualRemoveBgFail)

\* ------------------------------------------------------------ properties

CommitsInFlight == {t \in BagToSet(pending) : t.kind \in {"edits", "inpaint", "place"}}

\* C1: in every reachable state the cursor is -1 exactly when the history is
\* empty, and otherwise indexes an entry of the history.
CursorInHistory ==
    /\ (sceneHistory = <<>>) <=> (historyIndex = -1)
    /\ sceneHistory # <<>> => (0 <= historyIndex /\ historyIndex < Len(sceneHistory))

\* The cursor is behind the last entry while a call is in flight.
CursorBehindWithCallInFlight ==
    /\ Len(sceneHistory) >= 2
    /\ historyIndex < Len(sceneHistory) - 1
    /\ pending # EmptyBag

\* C2: a successful commit keeps the entries up to the cursor, drops those
\* after it, appends the new entry and leaves the cursor on it.
CommitTruncatesAtCursor ==
    [][(ApplyEditsDone \/ ApplyInpaintingDone \/ ConfirmPlacementDone) =>
          /\ Len(sceneHistory') = historyIndex + 2
          /\ SubSeq(sceneHistory', 1, historyIndex + 1) = SubSeq(sceneHistory, 1, historyIndex + 1)
          /\ sceneHistory'[historyIndex + 2].file = nextId
          /\ historyIndex' = Len(sceneHistory') - 1]_vars

\* C3: at most one commit is outstanding at any time.
CommitsSerialized ==
    /\ Cardinality(CommitsInFlight) <= 1
    /\ \A t \in CommitsInFlight : CopiesIn(t, pending) = 1

\* C4: while an external service call is outstanding, no step of undo or redo
\* moves the cursor and no step starts a placement proposal.
BusyBlocksHistoryAndPlacement ==
    [][(\E t \in BagToSet(pending) : t.kind \in {"inpaint", "place", "rmbg", "manualbg"}) =>
          /\ ~((Undo \/ Redo) /\ historyIndex' # historyIndex)
          /\ ~(placedProduct = NoPlacement /\ placedProduct' # NoPlacement)]_vars

\* C5: the failure of an external service call leaves the history, the cursor
\* and the active proposal as they were.
FailureLeavesHistoryAndPlacement ==
    [][(ConfirmPlacementFail \/ ApplyInpaintingFail
            \/ RemoveBackgroundFail \/ ManualRemoveBgFail) =>
          /\ sceneHistory' = sceneHistory
          /\ historyIndex' = historyIndex
          /\ placedProduct' = placedProduct]_vars

\* C6: a commit that resolves on the history it was started on, followed by
\* undo, shows the entry that was current before it, its URL not revoked.
CommitUndoRoundTrip ==
    \A t \in CommitsInFlight :
        (CanAllocate /\ HasScene(Cur) /\ t.hist = sceneHistory /\ t.idx = historyIndex) =>
            LET committed ==
                    Effects(Cur, IF t.kind = "edits" THEN applyEditsDone(Cur, t)
                                 ELSE IF t.kind = "inpaint" THEN applyInpaintingDone(Cur, t)
                                 ELSE confirmPlacementDone(Cur, t))
                undone == Effects(committed, handleUndo(committed))
            IN  /\ HasScene(undone)
                /\ currentHistoryEntry(undone) = currentHistoryEntry(Cur)
                /\ currentHistoryEntry(undone).url \notin undone.revoked

\* C7: a step of undo takes the cursor back by one when it is above 0 and
\* changes nothing otherwise.
UndoStep ==
    [][Undo => IF historyIndex > 0
               THEN historyIndex' = historyIndex - 1 /\ sceneHistory' = sceneHistory
               ELSE UNCHANGED vars]_vars

\* Undo is offered behind the first entry and its handler moves the cursor.
UndoMovesCursor ==
    /\ OnMain(Cur) /\ HistoryButtonsShown(Cur)
    /\ historyIndex > 0
    /\ Effects(Cur, handleUndo(Cur)).historyIndex = historyIndex - 1

\* C8: a step of redo takes the cursor forward by one when it is below the
\* last index and changes nothing otherwise.
RedoStep ==
    [][Redo => IF historyIndex < Len(sceneHistory) - 1
               THEN historyIndex' = historyIndex + 1 /\ sceneHistory' = sceneHistory
               ELSE UNCHANGED vars]_vars

\* Redo is offered before the last entry and its handler moves the cursor.
RedoMovesCursor ==
    /\ OnMain(Cur) /\ HistoryButtonsShown(Cur)
    /\ historyIndex < Len(sceneHistory) - 1
    /\ Effects(Cur, handleRedo(Cur)).historyIndex = historyIndex + 1

\* C9: a step of the full reset or of change-scene leaves the history empty
\* and the cursor at -1.
ResetClearsHistory ==
    [][(Reset \/ ChangeScene) => (sceneHistory' = <<>> /\ historyIndex' = -1)]_vars

\* The full reset is offered over a history of two entries with a call in flight.
ResetFromHistory ==
    /\ Screen(Cur) = "error" /\ ~ModalOpen(Cur)
    /\ Len(sceneHistory) >= 2
    /\ pending # EmptyBag
    /\ Effects(Cur, handleReset(Cur)).sceneHistory = <<>>
    /\ Effects(Cur, handleReset(Cur)).historyIndex = -1

\* C10: a step in which the apply-edits pipeline fails ends that one commit,
\* leaves the history and the cursor unchanged and sets the error.
EditsFailureKeepsHistory ==
    [][ApplyEditsFail =>
          /\ sceneHistory' = sceneHistory
          /\ historyIndex' = historyIndex
          /\ nextId' = nextId
          /\ BagCardinality(pending') = BagCardinality(pending) - 1
          /\ error']_vars

\* An apply-edits call is in flight over a history of two entries and its
\* failure leaves them.
EditsFailureCase ==
    \E t \in BagToSet(pending) :
        /\ t.kind = "edits"
        /\ Len(sceneHistory) >= 2
        /\ ~error
        /\ Effects(Cur, applyEditsFail(Cur, t)).sceneHistory = sceneHistory
        /\ Effects(Cur, applyEditsFail(Cur, t)).error

\* No pixel of a stroke layer is painted.
NothingPainted(data) == \A i \in DOMAIN data : data[i][4] = 0

\* C11: confirming an all-transparent stroke layer starts no external call,
\* on the scene (remove object) and in the brush modal of a product.
EmptyMaskRejected ==
    [][/\ (ApplyInpainting /\ NothingPainted(maskData)) => pending' = pending
       /\ (ConfirmManualRemoveBg /\ NothingPainted(modalData)) => pending' = pending]_vars

\* C20: each encoder applied to a mask it produced returns that mask.
MaskEncodingIdempotent ==
    \A t \in BagToSet(pending) :
        t.mask # NoFile =>
            /\ getMaskAsFile(t.mask) = t.mask
            /\ modalMaskFile(t.mask) = t.mask

\* C12: while a proposal exists the scene takes no click or mouse drop as a
\* placement, and a touch drop at any point leaves the proposal as it is.
SingleProposal ==
    placedProduct # NoPlacement =>
        /\ ~isDropZone(Cur)
        /\ \A pt \in InsidePoints \cup DragTargets :
               Effects(Cur, handleTouchEnd(Cur, pt)).placedProduct = placedProduct

\* C17: a step of a click or drop outside the image creates no proposal and
\* leaves the history, the cursor, the proposal, masking mode and the busy
\* flag unchanged.
OutsidePointIgnored ==
    [][(\/ /\ OnMain(Cur) /\ isDropZone(Cur)
           /\ Render(handlePlacement(Cur, OutsidePoint))
        \/ /\ isTouchDragging
           /\ Render(handleTouchEnd(Cur, OutsidePoint))) =>
          UNCHANGED <<sceneHistory, historyIndex, placedProduct, isMaskingMode, isLoading>>]_vars

\* A touch drag hovers over the editor while a commit is in flight: a drop
\* inside the image would place the product, a drop outside does not.
OutsideDropCase ==
    /\ isTouchDragging /\ OnMain(Cur) /\ isLoading
    /\ placedProduct = NoPlacement
    /\ \E pt \in InsidePoints : handleTouchEnd(Cur, pt).placedProduct # NoPlacement
    /\ handleTouchEnd(Cur, OutsidePoint).placedProduct = NoPlacement
    /\ handleTouchEnd(Cur, OutsidePoint).isLoading

\* C16: for every container size, content size and pointer, the click/drop
\* path and the touch-drop path yield a placement exactly when the pointer
\* lies within the centered aspect-fit content rectangle, and the percentages
\* of a placement lie in [0, 100].
ProjectionMatchesContentRect ==
    \A rect \in ContainerSizes, content \in ContentSizes, p \in PointerGrid :
        LET click == handlePlacement(Cur, projectPlacement(rect, content, p)).placedProduct
            touch == handleTouchEnd(Cur, projectTouchDrop(rect, content, p)).placedProduct
            inside == inContainer(rect, p) /\ inContentRect(rect, content, p)
            InRange(pl) == pl.xPercent \in 0..100 /\ pl.yPercent \in 0..100
        IN  /\ OnMain(Cur) /\ isDropZone(Cur) /\ inContainer(rect, p) =>
                  /\ click # NoPlacement <=> inside
                  /\ click # NoPlacement => InRange(click)
            /\ OnMain(Cur) /\ isTouchDragging /\ placedProduct = NoPlacement =>
                  /\ touch # NoPlacement <=> inside
                  /\ touch # NoPlacement => InRange(touch)

\* A proposal stands where a pointer of a letterboxed layout projects to, and
\* the bars of the layout moved its percentage away from the container's.
LetterboxedPlacement ==
    /\ placedProduct # NoPlacement
    /\ \E rect \in ContainerSizes, content \in ContentSizes, p \in Pointers :
          /\ inContainer(rect, p)
          /\ projectPlacement(rect, content, p) = <<placedProduct.xPercent, placedProduct.yPercent>>
          /\ placedProduct.xPercent # (p[1] * 100) \div rect[1]
          /\ \E q \in Pointers : inContainer(rect, q) /\ ~inContentRect(rect, content, q)

\* C13: the position of the proposal lies within [0, 100] on both axes, after
\* its creation and after every drag update.
ProposalWithinScene ==
    placedProduct # NoPlacement =>
        /\ placedProduct.xPercent \in 0..100
        /\ placedProduct.yPercent \in 0..100

\* C14: the scale of the proposal lies within [0.1, 5.0] whatever the two
\* distances of a pinch are.
PinchScaleInRange ==
    placedProduct # NoPlacement =>
        /\ placedProduct.scale >= MinScale
        /\ placedProduct.scale <= MaxScale

\* C15: while a pinch started with zero distance has not seen a non-zero
\* distance, a move of it leaves the scale as it is (a scale factor of 1).
ZeroDistancePinchKeepsScale ==
    [][\A i \in 1..MaxTouches, p \in GesturePoints :
          (/\ PreviewTouchMoveAt(i, p)
           /\ Len(touches) = 2
           /\ pinchStartRef.active /\ pinchStartRef.initialDist = 0
           /\ getTouchDistance(touches) = 0)
          => placedProduct'.scale = placedProduct.scale]_vars

SamePosition ==
    /\ placedProduct'.xPercent = placedProduct.xPercent
    /\ placedProduct'.yPercent = placedProduct.yPercent

\* C18: a second touch that starts during a one-finger drag ends the drag and
\* starts a pinch without moving the proposal, and no move of a finger moves
\* the proposal while two fingers are held.
DragGivesWayToPinch ==
    [][/\ \A p \in GesturePoints :
             (PreviewTouchStartAt(p) /\ Len(touches) = 1 /\ dragStartRef.active)
             => /\ ~dragStartRef'.active
                /\ pinchStartRef'.active
                /\ SamePosition
       /\ \A i \in 1..MaxTouches, p \in GesturePoints :
             (PreviewTouchMoveAt(i, p) /\ Len(touches) = 2) => SamePosition]_vars

\* Two fingers pinch a proposal that a drag has moved from where it was
\* created, and the pinch has changed its scale.
PinchAfterDrag ==
    /\ Len(touches) = 2
    /\ pinchStartRef.active /\ ~dragStartRef.active
    /\ placedProduct # NoPlacement
    /\ \A pt \in InsidePoints : placedProduct.xPercent # pt[1]
    /\ placedProduct.scale # pinchStartRef.initialScale

\* The position a drag that started with dragStartRef has at pointer p.
DraggedTo(p) ==
    /\ placedProduct'.xPercent * GestureContainer[1] =
           dragStartRef.startXPercent * GestureContainer[1]
           + (p[1] - dragStartRef.startX) * 100
    /\ placedProduct'.yPercent * GestureContainer[2] =
           dragStartRef.startYPercent * GestureContainer[2]
           + (p[2] - dragStartRef.startY) * 100

\* C19: a press records the pointer and the proposal's position, and every
\* drag update by mouse or finger sets the position to the recorded one plus
\* the pointer's whole displacement since the press, as a percentage of the
\* container's width and height.
DragFromGestureStart ==
    [][/\ \A p \in GesturePoints :
             (PreviewMouseDownAt(p) \/ (PreviewTouchStartAt(p) /\ touches = <<>>))
             => dragStartRef' = [active |-> TRUE, startX |-> p[1], startY |-> p[2],
                                 startXPercent |-> placedProduct.xPercent,
                                 startYPercent |-> placedProduct.yPercent]
       /\ \A p \in GesturePoints :
             (PreviewMouseMoveAt(p) /\ dragStartRef.active /\ placedProduct # NoPlacement)
             => DraggedTo(p)
       /\ \A i \in 1..MaxTouches, p \in GesturePoints :
             (/\ PreviewTouchMoveAt(i, p)
              /\ Len(touches) = 1 /\ dragStartRef.active /\ placedProduct # NoPlacement)
             => DraggedTo(p)]_vars

\* A drag by mouse is under way and has moved the proposal from where the
\* press found it.
DragUnderWay ==
    /\ mouseListening /\ dragStartRef.active
    /\ placedProduct # NoPlacement
    /\ placedProduct.xPercent # dragStartRef.startXPercent
    /\ placedProduct.yPercent # dragStartRef.startYPercent

\* The mask of a stroke layer: same size, opaque white where the layer's
\* alpha is above 0 and opaque black elsewhere.
IsBinaryMaskOf(m, data) ==
    /\ DOMAIN m = DOMAIN data
    /\ \A i \in DOMAIN data :
          m[i] = IF data[i][4] > 0 THEN WhitePixel ELSE BlackPixel

\* C21: the mask encoded from a painted stroke layer has the layer's size, is
\* opaque white exactly where the layer's alpha is above 0 and opaque black
\* elsewhere, and the encoder of the scene and the encoder of the brush modal
\* give the same mask for every painted layer.
MaskEncodingBinary ==
    \A data \in {maskData, modalData} :
        ~NothingPainted(data) =>
            /\ IsBinaryMaskOf(getMaskAsFile(data), data)
            /\ IsBinaryMaskOf(modalMaskFile(data), data)
            /\ getMaskAsFile(data) = modalMaskFile(data)

\* Both stroke layers are painted in part.
BothLayersPainted ==
    /\ ~NothingPainted(maskData) /\ \E i \in DOMAIN maskData : maskData[i][4] = 0
    /\ ~NothingPainted(modalData) /\ \E i \in DOMAIN modalData : modalData[i][4] = 0

\* C22: for the same edits the preview pass and the commit pass give the same
\* pixels on an image that the preview does not scale down (without a
\* vignette, which the preview draws as an element over its canvas).
PreviewEqualsCommit ==
    (HasScene(Cur) /\ imageEdits.vignette = 0) =>
        \A img \in TestImages :
            previewCanvas(img, imageEdits) = applyEditsToImageFile(img, imageEdits)

\* C23: in both passes sharpening reads the raw samples of the image, before
\* brightness, contrast and saturation have touched them.
SharpenReadsRawSamples ==
    HasScene(Cur) =>
        \A img \in TestImages :
            /\ commitSharpenInput(img, imageEdits) = img
            /\ previewSharpenInput(img, imageEdits) = img

\* C24: sharpening by an amount of 0 or less leaves every channel of every
\* pixel as it is, in the commit pass and in the preview pass, raw or filtered.
SharpenNonPositiveIsIdentity ==
    \A img \in TestImages, amount \in {imageEdits.sharpen, -100, -1, 0} :
        amount <= 0 =>
            \A buf \in {img, drawFiltered(img, imageEdits)} :
                /\ applySharpen(buf, amount) = buf
                /\ previewApplySharpen(buf, amount) = buf

\* The scene is shown with edits that do not sharpen.
EditsWithoutSharpen ==
    /\ HasScene(Cur) /\ HasEdits(Cur)
    /\ imageEdits.sharpen = 0
    /\ \E img \in TestImages : previewCanvas(img, imageEdits) # img

\* C25: with a vignette of 0 the commit pass draws no overlay and the buffer
\* stays as the color stage left it; with a vignette above 0 the gradient has
\* the opacities 0, 0.2 x strength at the midpoint and 0.7 x strength at the
\* outer radius, with strength = amount / 100 (here in thousandths).
VignetteStops ==
    \A img \in TestImages :
        LET strength == 10 * imageEdits.vignette
            g == vignetteGradient(img.w, img.h, imageEdits.vignette)
            colored == drawFiltered(applySharpen(img, imageEdits.sharpen), imageEdits)
        IN  /\ imageEdits.vignette = 0 =>
                  /\ applyVignette(colored, imageEdits) = colored
                  /\ applyEditsToImageFile(img, imageEdits) = colored
            /\ imageEdits.vignette > 0 =>
                  /\ g.stops = <<[offset |-> 0, alpha |-> 0],
                                 [offset |-> 50, alpha |-> (2 * strength) \div 10],
                                 [offset |-> 100, alpha |-> (7 * strength) \div 10]>>
                  /\ applyVignette(colored, imageEdits)
                         = applyVignette(colored, [imageEdits EXCEPT !.vignette = strength \div 10])

\* Edits with a full vignette are being committed, and the overlay darkens
\* an image.
VignetteCommitted ==
    /\ \E t \in BagToSet(pending) : t.kind = "edits"
    /\ imageEdits.vignette = 100
    /\ \E img \in TestImages : applyVignette(img, imageEdits) # img

\* C26: for every width and height the gradient's inner radius is
\* min(W, H) / 4 and its outer radius is half the diagonal.
VignetteRadii ==
    (HasScene(Cur) /\ imageEdits.vignette > 0) =>
        \A img \in TestImages :
            LET g == vignetteGradient(img.w, img.h, imageEdits.vignette)
            IN  /\ g.innerRadius4 = (IF img.w < img.h THEN img.w ELSE img.h)
                /\ g.outerDiameterSq = img.w * img.w + img.h * img.h

\* C27: the stroke mask is empty after masking mode is toggled off and after
\* a new source image loads: a step that leaves masking mode or changes the
\* scene file ends with a blank stroke layer, whose encoding has no white
\* pixel, and outside masking mode the layer is always blank.
MaskClearedOnExit ==
    [][/\ ((isMaskingMode /\ ~isMaskingMode') \/ imageFileChanged(Cur, Cur'))
           => /\ maskData' = ClearCanvas
              /\ \A i \in DOMAIN maskData : encodeMask(maskData')[i] # WhitePixel
       /\ ~isMaskingMode' => maskData' = ClearCanvas]_vars

\* Strokes are on the mask while the toggle is available.
StrokesBeforeToggle ==
    /\ OnMain(Cur) /\ ~EditorDisabled(Cur)
    /\ isMaskingMode
    /\ \E i \in DOMAIN maskData : maskData[i] = StrokePixel

\* C28: a placement proposal exists only between a placement gesture and its
\* confirmation or cancellation. It appears only in a step that touches
\* neither the history nor the requests in flight; cancel removes it and
\* leaves the history, the cursor and the URLs alone; confirm hands the
\* compositor the proposal's source, position and scale as they are at that
\* moment; when a confirmation resolves, with a result or with a failure, no
\* proposal is left; and a history entry holds a file, its URL and the debug
\* artifact, never a proposal.
ProposalLifecycle ==
    /\ [](placedProduct # NoPlacement =>
            LET c == Effects(Cur, handleCancelPlacement(Cur))
                s == confirmPlacementStart(Cur)
            IN  /\ c.placedProduct = NoPlacement
                /\ c.sceneHistory = sceneHistory
                /\ c.historyIndex = historyIndex
                /\ c.revoked = revoked
                /\ (HasScene(Cur) /\ product[placedProduct.source] # "none") =>
                       \E t \in BagToSet(s.pending (-) pending) :
                           /\ s.pending = pending (+) SetToBag({t})
                           /\ t.kind = "place"
                           /\ t.slot = placedProduct.source
                           /\ t.req = placedProduct
                           /\ t.hist = sceneHistory /\ t.idx = historyIndex)
    /\ [](\A t \in BagToSet(pending) :
            t.kind = "place" =>
                /\ t.req # NoPlacement
                /\ Effects(Cur, confirmPlacementDone(Cur, t)).placedProduct = NoPlacement
                /\ Effects(Cur, confirmPlacementFail(Cur, t)).placedProduct = NoPlacement)
    /\ [](\A i \in 1..Len(sceneHistory) :
            DOMAIN sceneHistory[i] = {"file", "url", "debug"})
    /\ [][(placedProduct = NoPlacement /\ placedProduct' # NoPlacement)
            => /\ sceneHistory' = sceneHistory /\ historyIndex' = historyIndex
               /\ pending' = pending]_vars

\* A moved or rescaled proposal is waiting for the compositor's answer.
ProposalSentToCompositor ==
    /\ placedProduct # NoPlacement
    /\ placedProduct.scale # InitialScale
    /\ \E t \in BagToSet(pending) : t.kind = "place" /\ t.req = placedProduct

\* C29: every newly created placement proposal has scale exactly 1.0 and the
\* source equal to the product slot selected at creation, and from then on
\* its scale stays within [0.1, 5.0] under every pinch and slider update.
NewProposalScaleBounded ==
    /\ [][(placedProduct = NoPlacement /\ placedProduct' # NoPlacement)
            => /\ placedProduct'.scale = InitialScale
               /\ placedProduct'.source = selectedProductSource]_vars
    /\ [][placedProduct' # NoPlacement
            => placedProduct'.scale \in MinScale..MaxScale]_vars

\* C30: loading a scene image, the first one or a new one over a session,
\* replaces the whole history by a single entry for that image, without a
\* debug artifact, and sets the cursor to 0: no earlier entry and no
\* proposal is left.
SceneLoadReplacesHistory ==
    (/\ ~ModalOpen(Cur)
     /\ Screen(Cur) = "upload" \/ (Screen(Cur) = "main" /\ ~isDropZone(Cur))) =>
        LET f == Effects(Cur, setInitialScene(Cur, sceneHistory))
        IN  /\ Len(f.sceneHistory) = 1
            /\ f.sceneHistory[1].file = nextId
            /\ f.sceneHistory[1].debug = FALSE
            /\ \A i \in 1..Len(sceneHistory) :
                   /\ sceneHistory[i].file # f.sceneHistory[1].file
                   /\ sceneHistory[i].url \in f.revoked
            /\ f.historyIndex = 0
            /\ f.placedProduct = NoPlacement

\* A new scene can be loaded over a session with several entries, one of
\* them a composite with its debug artifact, and an active proposal.
SceneLoadedOverSession ==
    /\ Screen(Cur) = "main" /\ ~ModalOpen(Cur) /\ ~isDropZone(Cur)
    /\ CanAllocate
    /\ Len(sceneHistory) >= 2
    /\ \E i \in 1..Len(sceneHistory) : sceneHistory[i].debug
    /\ placedProduct # NoPlacement

\* C31: sharpen with amount in (0, 100] leaves the alpha of every pixel as it
\* is, reads a neighbour outside the image from the nearest edge pixel, and
\* writes each R, G, B sample as original x (1 - s) + convolved x s with
\* s = amount / 100 and the kernel 0 -1 0 / -1 5 -1 / 0 -1 0, every sample of
\* the result computed from the source buffer.  The write goes to a
\* Uint8ClampedArray, which rounds and clamps it.
SharpenKernelEdgeReplicate ==
    \A img0 \in TestImages, amount \in {imageEdits.sharpen, 1, 50, 100} :
        amount > 0 =>
            LET img == [img0 EXCEPT !.px[1][4] = 128, !.px[Len(img0.px)][4] = 0]
                weights == <<0, -1, 0, -1, 5, -1, 0, -1, 0>>
                edge(v, n) == IF v < 0 THEN 0 ELSE IF v > n - 1 THEN n - 1 ELSE v
                at(x, y, c) == img.px[edge(y, img.h) * img.w + edge(x, img.w) + 1][c]
                term(x, y, c, cx, cy) ==
                    at(x + cx - 1, y + cy - 1, c) * weights[cy * 3 + cx + 1]
                row(x, y, c, cy) ==
                    term(x, y, c, 0, cy) + term(x, y, c, 1, cy) + term(x, y, c, 2, cy)
                convolved(x, y, c) == row(x, y, c, 0) + row(x, y, c, 1) + row(x, y, c, 2)
            IN  \A out \in {applySharpen(img, amount), previewApplySharpen(img, amount)} :
                    /\ out.w = img.w /\ out.h = img.h
                    /\ DOMAIN out.px = DOMAIN img.px
                    /\ \A k \in DOMAIN img.px :
                           LET x == (k - 1) % img.w
                               y == (k - 1) \div img.w
                           IN  /\ out.px[k][4] = img.px[k][4]
                               /\ \A c \in 1..3 :
                                      out.px[k][c] =
                                          ToUint8Clamped(img.px[k][c] * (100 - amount)
                                                         + convolved(x, y, c) * amount, 100)

\* The sharpen slider is at 100 and sharpening changes an image.
SharpenAtWork ==
    /\ HasScene(Cur)
    /\ imageEdits.sharpen = 100
    /\ \E img \in TestImages : applySharpen(img, imageEdits.sharpen) # img

\* C32: whenever the displayed scene changes (a commit, undo, redo, loading a
\* new scene, change-scene or reset), the slider Edits are back at
\* brightness 100, contrast 100, saturation 100, sharpen 0, vignette 0,
\* masking mode is off and no proposal is active.
SceneChangeResetsSession ==
    [][imageFileChanged(Cur, Cur')
          => /\ imageEdits' = [brightness |-> 100, contrast |-> 100, saturation |-> 100,
                               sharpen |-> 0, vignette |-> 0]
             /\ ~isMaskingMode'
             /\ placedProduct' = NoPlacement]_vars

\* C33: the object URL of an entry is revoked only once the entry has left
\* the history: no entry of the history has a revoked URL.
HistoryUrlsLive ==
    \A i \in 1..Len(sceneHistory) : sceneHistory[i].url \notin revoked

\* C34: once the history has been cleared or replaced, no entry of the
\* discarded history reappears in it, also when a commit started before
\* completes afterwards: every entry a step leaves in the history was in it
\* before the step or is the new entry of that step.
DiscardedEntriesStayOut ==
    [][\A i \in 1..Len(sceneHistory') :
          \/ \E j \in 1..Len(sceneHistory) : sceneHistory'[i] = sceneHistory[j]
          \/ sceneHistory'[i].file = nextId]_vars

\* C35: isLoading is true in every state in which a commit (apply-edits,
\* inpainting, confirm-placement) is in flight: nothing clears it before
\* that commit has resolved.
LoadingWhileCommitInFlight ==
    CommitsInFlight # {} => isLoading

\* C36: every asynchronous operation that sets a busy flag (isLoading for a
\* commit, isRemovingBackground for the automatic background removal,
\* isProcessingManualBg for the one by brush) clears that flag when its call
\* resolves, with a result or with a failure, so that a flag that is set is
\* clear again at some later time.
BusyFlagsCleared ==
    /\ [](\A t \in BagToSet(pending) :
            /\ t.kind = "place" =>
                   /\ ~confirmPlacementDone(Cur, t).isLoading
                   /\ ~confirmPlacementFail(Cur, t).isLoading
            /\ t.kind = "inpaint" =>
                   /\ ~applyInpaintingDone(Cur, t).isLoading
                   /\ ~applyInpaintingFail(Cur, t).isLoading
            /\ t.kind = "edits" =>
                   /\ ~applyEditsDone(Cur, t).isLoading
                   /\ ~applyEditsFail(Cur, t).isLoading
            /\ t.kind = "rmbg" =>
                   /\ removeBackgroundDone(Cur, t).isRemovingBackground = "none"
                   /\ removeBackgroundFail(Cur, t).isRemovingBackground = "none"
            /\ t.kind = "manualbg" =>
                   /\ ~manualRemoveBgDone(Cur, t).isProcessingManualBg
                   /\ ~manualRemoveBgFail(Cur, t).isProcessingManualBg)
    /\ isLoading ~> ~isLoading
    /\ (isRemovingBackground # "none") ~> (isRemovingBackground = "none")
    /\ isProcessingManualBg ~> ~isProcessingManualBg

\* Two busy flags are set at once, each with its call in flight.
TwoBusyFlagsSet ==
    /\ isLoading /\ isRemovingBackground # "none"
    /\ \E t \in BagToSet(pending) : t.kind \in {"place", "inpaint"}
    /\ \E t \in BagToSet(pending) : t.kind = "rmbg"

\* C37: masking mode and a placement proposal exclude each other: in no
\* reachable state is isMaskingMode true while a proposal exists.
MaskingExcludesProposal ==
    ~(isMaskingMode /\ placedProduct # NoPlacement)

\* C38: the result of a background removal is applied only to the product
\* image it was requested for: when the product of that slot was removed
\* while the call was in flight, the completed call leaves the slot empty.
RemovalResultOnlyForItsProduct ==
    \A t \in BagToSet(pending) :
        (t.kind \in {"rmbg", "manualbg"} /\ product[t.slot] = "none") =>
            LET done == Effects(Cur, IF t.kind = "rmbg" THEN removeBackgroundDone(Cur, t)
                                     ELSE manualRemoveBgDone(Cur, t))
            IN  done.product[t.slot] = "none"

\* C39: undo and redo change only the cursor, and clear the proposal when
\* they move it: the sequence of history entries and the contents of each
\* entry, its URL still as usable as before, are the same before and after.
UndoRedoKeepHistory ==
    \A f \in {handleUndo(Cur), handleRedo(Cur)} :
        /\ [f EXCEPT !.historyIndex = historyIndex, !.placedProduct = placedProduct] = Cur
        /\ f.historyIndex = historyIndex => f = Cur
        /\ f.historyIndex # historyIndex =>
               /\ f.placedProduct = NoPlacement
               /\ f.historyIndex \in {historyIndex - 1, historyIndex + 1}
               /\ HasScene(f)
        /\ Effects(Cur, f).sceneHistory = sceneHistory
        /\ Effects(Cur, f).revoked = revoked

\* Undo and redo are both offered in the middle of a history.
UndoAndRedoOffered ==
    /\ OnMain(Cur) /\ HistoryButtonsShown(Cur)
    /\ historyIndex > 0 /\ historyIndex < Len(sceneHistory) - 1

\* C40: confirm-placement started with no active proposal, no current scene
\* or no product loaded in the proposal's slot sets an error and returns:
\* the busy flag, the calls in flight, the history and everything else but
\* the error stay as they are.  The handler is run in the current state and
\* in the current state without its proposal, its scene or its products.
ConfirmWithoutPreconditions ==
    \A st \in {Cur,
                [Cur EXCEPT !.placedProduct = NoPlacement],
                [Cur EXCEPT !.sceneHistory = <<>>, !.historyIndex = -1],
                [Cur EXCEPT !.product = [s \in Slots |-> "none"]]} :
        (\/ st.placedProduct = NoPlacement
         \/ ~HasScene(st)
         \/ st.product[st.placedProduct.source] = "none") =>
            LET f == confirmPlacementStart(st)
            IN  /\ f.error
                /\ f.isLoading = st.isLoading
                /\ f.pending = st.pending
                /\ f.sceneHistory = st.sceneHistory
                /\ f.historyIndex = st.historyIndex
                /\ [f EXCEPT !.error = st.error] = st

\* A proposal is active on a scene, no call is in flight and no error is
\* shown: each missing piece makes the handler return with the error.
ConfirmCouldLackEachPiece ==
    /\ OnMain(Cur) /\ PlacementControlsShown(Cur)
    /\ ~error /\ ~isLoading /\ pending = EmptyBag
    /\ confirmPlacementStart([Cur EXCEPT !.placedProduct = NoPlacement]).error
    /\ confirmPlacementStart([Cur EXCEPT !.sceneHistory = <<>>, !.historyIndex = -1]).error
    /\ confirmPlacementStart([Cur EXCEPT !.product = [s \in Slots |-> "none"]]).error

====
